---- MODULE Spec2Model ----
(***************************************************************************)
(* A model of src/words_token.py: the line parser, the tokenizer, the      *)
(* n-gram generator, the keyword classifier, the analysis loop of          *)
(* analyze_text and the export of save_to_json.                            *)
(*                                                                         *)
(* A Python str is a sequence of one-character strings.  A Counter (a dict *)
(* that remembers insertion order) is a sequence of [key, count] records   *)
(* in order of first insertion.                                            *)
(***************************************************************************)
EXTENDS Integers, Sequences, FiniteSets, TLC

VARIABLES
    pc,                     \* where the run of analyze() stands
    file_status,            \* what open(file_path) meets
    ngram_size,             \* analyze_text's ngram_size argument
    lines,                  \* the lines of the file read so far
    timestamp, text,        \* locals of the loop body, line 64
    words, grams,           \* locals of the loop body, lines 65 and 67
    categories,             \* categorize_issues' result for the line
    word_freq, ngram_freq, entity_freq,
    question_freq, resolutions, issue_categories,
    sentiment_time_series,
    results,                \* what analyze_text returned
    exc,                    \* the exception that left analyze(), or "none"
    save_n, limited_data,   \* save_to_json's argument and local
    out_dir,                \* the output path's directory
    out_before,             \* what the output path held when the export began
    out_file                \* what the output path holds

vars == <<pc, file_status, ngram_size, lines, timestamp, text, words, grams,
          categories, word_freq, ngram_freq, entity_freq, question_freq,
          resolutions, issue_categories, sentiment_time_series, results, exc,
          save_n, limited_data, out_dir, out_before, out_file>>

(***************************************************************************)
(* Characters and strings                                                  *)
(***************************************************************************)
Digits == <<"0", "1", "2", "3", "4", "5", "6", "7", "8", "9">>

LowerCase == <<"a", "b", "c", "d", "e", "f", "g", "h", "i", "j", "k", "l", "m",
               "n", "o", "p", "q", "r", "s", "t", "u", "v", "w", "x", "y", "z">>

UpperCase == <<"A", "B", "C", "D", "E", "F", "G", "H", "I", "J", "K", "L", "M",
               "N", "O", "P", "Q", "R", "S", "T", "U", "V", "W", "X", "Y", "Z">>

Range(s) == {s[i] : i \in DOMAIN s}

IsDigit(c) == c \in Range(Digits)

DigitVal(c) == (CHOOSE i \in DOMAIN Digits : Digits[i] = c) - 1

\* str.isspace for one character
IsSpace(c) == c \in {" ", "\n", "\t"}

\* s[a..b], empty when b < a
Slice(s, a, b) == IF b < a THEN <<>> ELSE SubSeq(s, a, b)

\* str.strip(): leading and trailing whitespace removed
strip(s) ==
    LET keep == {i \in DOMAIN s : ~IsSpace(s[i])}
    IN  IF keep = {} THEN <<>>
        ELSE LET a == CHOOSE i \in keep : \A j \in keep : i <= j
                 b == CHOOSE i \in keep : \A j \in keep : j <= i
             IN  SubSeq(s, a, b)

\* `sub in s` for Python strings
Contains(s, sub) ==
    \E i \in 0..(Len(s) - Len(sub)) : SubSeq(s, i + 1, i + Len(sub)) = sub

\* int() of a run of decimal digits
RECURSIVE IntOf(_)
IntOf(s) == IF s = <<>> THEN 0
            ELSE 10 * IntOf(SubSeq(s, 1, Len(s) - 1)) + DigitVal(s[Len(s)])

\* the length of the run of digits of s that starts at position p
RECURSIVE DigitRun(_, _)
DigitRun(s, p) == IF p <= Len(s) /\ IsDigit(s[p]) THEN 1 + DigitRun(s, p + 1) ELSE 0

\* the length of the run of whitespace of s that starts at position p
RECURSIVE SpaceRun(_, _)
SpaceRun(s, p) == IF p <= Len(s) /\ IsSpace(s[p]) THEN 1 + SpaceRun(s, p + 1) ELSE 0

(***************************************************************************)
(* datetime.strptime(s, "%Y-%m-%d %H:%M:%S") and datetime.isoformat        *)
(***************************************************************************)
None == [kind |-> "None"]

\* what strptime gives when it raises ValueError
ValueError == [kind |-> "ValueError"]

IsLeap(y) == (y % 4 = 0) /\ ((y % 100 # 0) \/ (y % 400 = 0))

DaysInMonth(y, m) ==
    IF m = 2 THEN (IF IsLeap(y) THEN 29 ELSE 28)
    ELSE IF m \in {4, 6, 9, 11} THEN 30 ELSE 31

\* One numeric field of the format: the digits of s from p, of length n, read
\* by the directive's pattern, which takes one or two digits and a value
\* between lo and hi.  -1 when the pattern does not match there.
Field(s, p, n, lo, hi) ==
    IF n \in {1, 2} /\ IntOf(Slice(s, p, p + n - 1)) \in lo..hi
    THEN IntOf(Slice(s, p, p + n - 1))
    ELSE -1

\* strptime's pattern for the format is
\*   \d\d\d\d - (1[0-2]|0[1-9]|[1-9]) - (3[0-1]|[1-2]\d|0[1-9]|[1-9]| [1-9])
\*   \s+ (2[0-3]|[0-1]\d|\d) : ([0-5]\d|\d) : (6[0-1]|[0-5]\d|\d)
\* and the whole string must be consumed.  The result is a datetime, or
\* ValueError when strptime raises it.
strptime(s) ==
    LET nY   == DigitRun(s, 1)
        pm   == 6
        nm   == DigitRun(s, pm)
        m    == Field(s, pm, nm, 1, 12)
        pd0  == pm + nm + 1
        \* the day's last alternative: one space, then one digit 1-9
        lead == IF pd0 <= Len(s) /\ s[pd0] = " " THEN 1 ELSE 0
        pd   == pd0 + lead
        nd   == DigitRun(s, pd)
        d    == IF lead = 1 /\ nd # 1 THEN -1 ELSE Field(s, pd, nd, 1, 31)
        pw   == pd + nd
        nw   == SpaceRun(s, pw)
        pH   == pw + nw
        nH   == DigitRun(s, pH)
        H    == Field(s, pH, nH, 0, 23)
        pM   == pH + nH + 1
        nM   == DigitRun(s, pM)
        M    == Field(s, pM, nM, 0, 59)
        pS   == pM + nM + 1
        nS   == DigitRun(s, pS)
        S    == Field(s, pS, nS, 0, 61)
        sep(p, c) == p <= Len(s) /\ s[p] = c
        matched ==
            /\ nY = 4 /\ sep(5, "-")
            /\ m >= 0 /\ sep(pm + nm, "-")
            /\ d >= 0
            /\ nw >= 1
            /\ H >= 0 /\ sep(pH + nH, ":")
            /\ M >= 0 /\ sep(pM + nM, ":")
            /\ S >= 0
            /\ pS + nS - 1 = Len(s)
        Y == IntOf(Slice(s, 1, 4))
    IN  IF matched /\ Y >= 1 /\ d <= DaysInMonth(Y, m) /\ S <= 59
        THEN [kind |-> "datetime", year |-> Y, month |-> m, day |-> d,
              hour |-> H, minute |-> M, second |-> S]
        ELSE ValueError

\* "%0<w>d" % n
RECURSIVE Pad(_, _)
Pad(n, w) == IF w = 0 THEN <<>> ELSE Pad(n \div 10, w - 1) \o <<Digits[(n % 10) + 1]>>

\* datetime.isoformat() of a datetime without microseconds
isoformat(dt) ==
    Pad(dt.year, 4) \o <<"-">> \o Pad(dt.month, 2) \o <<"-">> \o Pad(dt.day, 2)
    \o <<"T">> \o Pad(dt.hour, 2) \o <<":">> \o Pad(dt.minute, 2)
    \o <<":">> \o Pad(dt.second, 2)

(***************************************************************************)
(* parse_line                                                              *)
(***************************************************************************)
\* the position of the first c in s, 0 when there is none
IndexOf(s, c) ==
    IF \E i \in DOMAIN s : s[i] = c
    THEN CHOOSE i \in DOMAIN s : s[i] = c /\ \A j \in 1..(i - 1) : s[j] # c
    ELSE 0

\* line.split("|", 1) gives two parts when there is a "|", else one, and the
\* unpacking of one part raises ValueError, as strptime does on a mismatch.
parse_line(line) ==
    LET bar == IndexOf(line, "|")
    IN  IF bar = 0 THEN <<None, strip(line)>>
        ELSE LET ts == strptime(strip(Slice(line, 1, bar - 1)))
             IN  IF ts.kind = "ValueError" THEN <<None, strip(line)>>
                 ELSE <<ts, strip(Slice(line, bar + 1, Len(line)))>>

(***************************************************************************)
(* tokenize_and_clean                                                      *)
(***************************************************************************)
\* str.lower()
lower(s) ==
    [i \in DOMAIN s |->
        IF s[i] \in Range(UpperCase)
        THEN LowerCase[CHOOSE k \in DOMAIN UpperCase : UpperCase[k] = s[i]]
        ELSE s[i]]

\* str.isalpha(): not empty, and letters only
isalpha(w) == w # <<>> /\ \A i \in DOMAIN w : w[i] \in Range(LowerCase) \cup Range(UpperCase)

\* str.split(): the maximal runs of characters that are not whitespace
RECURSIVE SplitFrom(_, _, _)
SplitFrom(s, p, cur) ==
    IF p > Len(s) THEN (IF cur = <<>> THEN <<>> ELSE <<cur>>)
    ELSE IF IsSpace(s[p])
         THEN (IF cur = <<>> THEN <<>> ELSE <<cur>>) \o SplitFrom(s, p + 1, <<>>)
         ELSE SplitFrom(s, p + 1, Append(cur, s[p]))

split(s) == SplitFrom(s, 1, <<>>)

\* nltk's word_tokenize on the characters the inputs here are made of: a "?"
\* or "!" becomes a token of its own, the other tokens are the runs between
\* whitespace ("_", "-", ":" and "|" do not end a token).
RECURSIVE PadMarks(_)
PadMarks(s) ==
    IF s = <<>> THEN <<>>
    ELSE (IF Head(s) \in {"?", "!"} THEN <<" ", Head(s), " ">> ELSE <<Head(s)>>)
         \o PadMarks(Tail(s))

word_tokenize(s) == split(PadMarks(s))

\* stopwords.words('english'), the entries that the inputs here can meet
stop_words == {<<"a">>, <<"i">>, <<"t", "h", "e">>, <<"h", "a", "v", "e">>}

\* line 32 without its isalpha test: tokens with digits, punctuation or an
\* underscore stay
KeepWordNoAlpha(word, stops) == word \notin stops

\* the filter of line 32
KeepWord(word, stops) == word \notin stops /\ isalpha(word)

tokenize_and_clean(txt, stops) ==
    LET ws == word_tokenize(lower(txt))
        Keep(w) == KeepWord(w, stops)
    IN  SelectSeq(ws, Keep)

(***************************************************************************)
(* generate_ngrams                                                         *)
(***************************************************************************)
\* zip(*lists): as many tuples as the shortest list has items, none for no list
zip(lists) ==
    IF lists = <<>> THEN <<>>
    ELSE LET m == CHOOSE k \in {Len(lists[j]) : j \in DOMAIN lists} :
                      \A j \in DOMAIN lists : k <= Len(lists[j])
         IN  [k \in 1..m |-> [j \in DOMAIN lists |-> lists[j][k]]]

\* ws[i:]
Suffix(ws, i) == Slice(ws, i + 1, Len(ws))

\* the slices taken from range(1, n + 1): every window starts one token late
generate_ngrams_shifted(ws, n) == zip([i \in 1..n |-> Suffix(ws, i)])

\* zip(*[words[i:] for i in range(n)])
generate_ngrams(ws, n) == zip([i \in 1..n |-> Suffix(ws, i - 1)])

(***************************************************************************)
(* collections.Counter                                                     *)
(***************************************************************************)
Keys(c) == {c[i].key : i \in DOMAIN c}

\* c[k], 0 for a missing key
Count(c, k) ==
    IF k \in Keys(c) THEN c[CHOOSE i \in DOMAIN c : c[i].key = k].count ELSE 0

\* c[k] = n in place of c[k] += n
AddOverwrite(c, k, n) ==
    IF k \in Keys(c)
    THEN [i \in DOMAIN c |-> IF c[i].key = k THEN [key |-> k, count |-> n] ELSE c[i]]
    ELSE Append(c, [key |-> k, count |-> n])

\* c[k] += n
Add(c, k, n) ==
    IF k \in Keys(c)
    THEN [i \in DOMAIN c |->
            IF c[i].key = k THEN [key |-> k, count |-> c[i].count + n] ELSE c[i]]
    ELSE Append(c, [key |-> k, count |-> n])

\* Counter.update(iterable): one more for each item, in order
RECURSIVE update(_, _)
update(c, items) ==
    IF items = <<>> THEN c ELSE update(Add(c, Head(items), 1), Tail(items))

\* Counter.update(mapping): the mapping's counts are added
RECURSIVE update_counts(_, _)
update_counts(c, other) ==
    IF other = <<>> THEN c
    ELSE update_counts(Add(c, Head(other).key, Head(other).count), Tail(other))

\* the position of the first item of c with the highest count
FirstMax(c) ==
    CHOOSE i \in DOMAIN c :
        /\ \A j \in DOMAIN c : c[j].count <= c[i].count
        /\ \A j \in 1..(i - 1) : c[j].count < c[i].count

Without(c, i) == Slice(c, 1, i - 1) \o Slice(c, i + 1, Len(c))

\* sorted(items, key=count, reverse=True): stable, so equal counts keep
\* their insertion order
RECURSIVE SortedDesc(_)
SortedDesc(c) ==
    IF c = <<>> THEN <<>>
    ELSE <<c[FirstMax(c)]>> \o SortedDesc(Without(c, FirstMax(c)))

\* Counter.most_common(n) for an integer n: heapq.nlargest(n, items, key=count),
\* which gives no item for n <= 0 and else the first n of the stable sort
most_common(c, n) ==
    IF n <= 0 THEN <<>>
    ELSE Slice(SortedDesc(c), 1, IF n < Len(c) THEN n ELSE Len(c))

\* dict(pairs): a key met again keeps its place and takes the later value
RECURSIVE dict(_)
dict(pairs) ==
    IF pairs = <<>> THEN <<>>
    ELSE LET d == dict(Slice(pairs, 1, Len(pairs) - 1))
             p == pairs[Len(pairs)]
         IN  IF p.key \in Keys(d)
             THEN [i \in DOMAIN d |-> IF d[i].key = p.key THEN p ELSE d[i]]
             ELSE Append(d, p)

\* list[:n]
Prefix(s, n) ==
    IF n >= 0 THEN Slice(s, 1, IF n < Len(s) THEN n ELSE Len(s))
    ELSE Slice(s, 1, Len(s) + n)

(***************************************************************************)
(* categorize_issues and the tables of analyze_text                        *)
(***************************************************************************)
resolution_phrases ==
    <<<<"r", "e", "s", "o", "l", "v", "e", "d">>,
      <<"w", "i", "l", "l", " ", "g", "e", "t", " ", "b", "a", "c", "k", " ", "t", "o", " ", "y", "o", "u">>,
      <<"s", "o", "l", "u", "t", "i", "o", "n">>,
      <<"f", "i", "x", "e", "d">>>>

issue_keywords ==
    <<[category |-> "billing", keywords |->
          <<<<"i", "n", "v", "o", "i", "c", "e">>,
            <<"b", "i", "l", "l", "i", "n", "g">>,
            <<"c", "h", "a", "r", "g", "e">>,
            <<"p", "a", "y", "m", "e", "n", "t">>>>],
      [category |-> "technical", keywords |->
          <<<<"e", "r", "r", "o", "r">>,
            <<"p", "r", "o", "b", "l", "e", "m">>,
            <<"b", "u", "g">>,
            <<"i", "s", "s", "u", "e">>>>],
      [category |-> "support", keywords |->
          <<<<"h", "e", "l", "p">>,
            <<"s", "u", "p", "p", "o", "r", "t">>,
            <<"s", "e", "r", "v", "i", "c", "e">>,
            <<"a", "s", "s", "i", "s", "t", "a", "n", "c", "e">>>>]>>

\* any(keyword in text for keyword in keywords)
AnyIn(txt, keywords) == \E i \in DOMAIN keywords : Contains(txt, keywords[i])

\* the test of line 38
Matches(txt, keywords) == AnyIn(txt, keywords)

RECURSIVE CategorizeFrom(_, _, _)
CategorizeFrom(txt, kw, cats) ==
    IF kw = <<>> THEN cats
    ELSE CategorizeFrom(txt, Tail(kw),
            IF Matches(txt, Head(kw).keywords)
            THEN update(cats, <<Head(kw).category>>)
            ELSE cats)

\* one count for each keyword that matches, in place of one for the category
RECURSIVE CountKeywordsFrom(_, _, _)
CountKeywordsFrom(txt, kw, cats) ==
    IF kw = <<>> THEN cats
    ELSE LET found == SelectSeq(Head(kw).keywords, LAMBDA k : Contains(txt, k))
         IN  CountKeywordsFrom(txt, Tail(kw),
                update(cats, [i \in DOMAIN found |-> Head(kw).category]))

categorize_per_keyword(txt, kw) == CountKeywordsFrom(txt, kw, <<>>)

categorize_issues(txt, kw) == CategorizeFrom(txt, kw, <<>>)

\* nlp(text).ents: the recognizer is handed in by the caller; here it finds
\* the words that begin with a capital letter.
ents(txt) ==
    LET IsName(w) == w[1] \in Range(UpperCase)
    IN  SelectSeq(split(txt), IsName)

\* polarity_scores(text)['compound'], in hundredths: the scorer is a lexicon
\* of valences, summed over the words of the text and kept within -1..1
Lexicon ==
    <<[key |-> <<"h", "e", "l", "p">>, count |-> 40],
      [key |-> <<"f", "i", "x", "e", "d">>, count |-> 30],
      [key |-> <<"b", "u", "g">>, count |-> -60],
      [key |-> <<"e", "r", "r", "o", "r">>, count |-> -40]>>

RECURSIVE Valence(_)
Valence(ws) == IF ws = <<>> THEN 0 ELSE Count(Lexicon, Head(ws)) + Valence(Tail(ws))

polarity_compound(txt) ==
    LET v == Valence(word_tokenize(lower(txt)))
    IN  IF v > 100 THEN 100 ELSE IF v < -100 THEN -100 ELSE v

(***************************************************************************)
(* The input lines                                                         *)
(***************************************************************************)
\* a timestamp at midnight, a second "|" in the text
LineMidnight ==
    <<"2", "0", "2", "4", "-", "0", "1", "-", "0", "1", " ", "0", "0", ":",
      "0", "0", ":", "0", "0", " ", "|", " ", "b", "u", "g", " ", "|", " ",
      "f", "i", "x", "e", "d", "\n">>

\* a timestamp whose fields are not padded to two digits
LineUnpadded ==
    <<"2", "0", "2", "4", "-", "1", "-", "5", " ", "9", ":", "0", "3", ":",
      "0", "7", " ", "|", " ", "h", "e", "l", "p", "?", "\n">>

\* a "|" with no timestamp before it
LineNoStamp ==
    <<"B", "u", "g", " ", "b", "u", "g", " ", "i", "s", "s", "u", "e", " ",
      "b", "i", "l", "l", "i", "n", "g", " ", "|", " ", "h", "e", "l", "p",
      "\n">>

\* the pattern of a timestamp, but no such day
LineBadDate ==
    <<"2", "0", "2", "4", "-", "0", "2", "-", "3", "0", " ", "1", "0", ":",
      "0", "0", ":", "0", "0", " ", "|", " ", "t", "h", "e", " ", "p", "a",
      "y", "m", "e", "n", "t", " ", "e", "r", "r", "o", "r", "\n">>

\* an underscore inside a word
LineUnderA ==
    <<"x", "_", "y", " ", "z", "\n">>

\* an underscore inside a word
LineUnderB ==
    <<"x", " ", "y", "_", "z", "\n">>

Corpus == {LineMidnight, LineUnpadded, LineNoStamp, LineBadDate, LineUnderA, LineUnderB}

(***************************************************************************)
(* Bounds and inputs                                                       *)
(***************************************************************************)
\* the most lines a file holds
MaxLines == 2

\* the largest ngram_size handed to analyze_text
MaxNgram == 2

\* the largest save_n handed to save_to_json
MaxSaveN == 2

\* what open(file_path, 'r') can meet
FileStatuses == {"readable", "missing", "permission_denied", "is_directory"}

\* the values of save_n: the entry field takes any integer
SaveNs == (-1)..MaxSaveN

Absent == [kind |-> "absent", members |-> <<>>, complete |-> FALSE]

\* a document that an earlier run left at the output path
OldFile == [kind |-> "old", members |-> <<>>, complete |-> TRUE]

\* the output path: its directory is there, is missing, or the path is a bare
\* file name (os.path.dirname gives ''), and the file is there or not
OutputPaths ==
    {<<"exists", Absent>>, <<"exists", OldFile>>, <<"missing", Absent>>,
     <<"bare", Absent>>, <<"bare", OldFile>>}

(***************************************************************************)
(* analyze_text                                                            *)
(***************************************************************************)
Init ==
    /\ pc = "start"
    /\ file_status \in FileStatuses
    /\ ngram_size \in 1..MaxNgram
    /\ lines = <<>>
    /\ timestamp = None
    /\ text = <<>>
    /\ words = <<>>
    /\ grams = <<>>
    /\ categories = <<>>
    /\ word_freq = <<>>
    /\ ngram_freq = <<>>
    /\ entity_freq = <<>>
    /\ question_freq = <<>>
    /\ resolutions = <<>>
    /\ issue_categories = <<>>
    /\ sentiment_time_series = <<>>
    /\ results = "unset"
    /\ exc = "none"
    /\ save_n = 0
    /\ limited_data = <<>>
    /\ \E p \in OutputPaths : out_dir = p[1] /\ out_file = p[2]
    /\ out_before = Absent

tables == <<word_freq, ngram_freq, entity_freq, question_freq, resolutions,
            issue_categories, sentiment_time_series>>

locals == <<timestamp, text, words, grams, categories>>

export == <<save_n, limited_data, out_dir, out_before, out_file>>

\* line 62, the file opens
OpenInput ==
    /\ pc = "start"
    /\ file_status = "readable"
    /\ pc' = "reading"
    /\ UNCHANGED <<file_status, ngram_size, lines, locals, tables, results, exc, export>>

\* lines 62 and 77-79: open raises FileNotFoundError, analyze_text prints and
\* returns None, and analyze() (lines 146-148) shows its message
OpenMissing ==
    /\ pc = "start"
    /\ file_status = "missing"
    /\ results' = "None"
    /\ pc' = "no_result"
    /\ UNCHANGED <<file_status, ngram_size, lines, locals, tables, exc, export>>

\* line 62: open raises an OSError that is no FileNotFoundError; line 77 does
\* not catch it and it leaves analyze_text and analyze()
OpenUnreadable ==
    /\ pc = "start"
    /\ file_status \in {"permission_denied", "is_directory"}
    /\ exc' = (IF file_status = "is_directory" THEN "IsADirectoryError"
                                               ELSE "PermissionError")
    /\ pc' = "raised"
    /\ UNCHANGED <<file_status, ngram_size, lines, locals, tables, results, export>>

\* truth as of a datetime.time before Python 3.5: midnight is false
TruthyButMidnight(ts) ==
    /\ ts.kind # "None"
    /\ ~(ts.hour = 0 /\ ts.minute = 0 /\ ts.second = 0)

\* `if timestamp:` of line 71: a datetime is true, None is not
Truthy(ts) == ts.kind # "None"

\* lines 71-72
TrackSentiment(series, ts, score) ==
    IF Truthy(ts) THEN Append(series, <<isoformat(ts), score>>) ELSE series

\* one turn of the loop, lines 63-75
ProcessLine(line) ==
    LET parsed == parse_line(line)
        ts     == parsed[1]
        txt    == parsed[2]
        ws     == tokenize_and_clean(txt, stop_words)
        gs     == generate_ngrams(ws, ngram_size)
        cats   == categorize_issues(txt, issue_keywords)
    IN  /\ pc = "reading"
        /\ Len(lines) < MaxLines
        /\ lines' = Append(lines, line)
        /\ timestamp' = ts
        /\ text' = txt
        /\ words' = ws
        /\ grams' = gs
        /\ categories' = cats
        /\ word_freq' = update(word_freq, ws)
        /\ ngram_freq' = update(ngram_freq, gs)
        /\ entity_freq' = update(entity_freq, ents(txt))
        /\ question_freq' =
              update(question_freq, IF Contains(txt, <<"?">>) THEN <<txt>> ELSE <<>>)
        /\ sentiment_time_series' =
              TrackSentiment(sentiment_time_series, ts, polarity_compound(txt))
        /\ resolutions' =
              (IF AnyIn(txt, resolution_phrases) THEN update(resolutions, <<txt>>)
                                                 ELSE resolutions)
        /\ issue_categories' = update_counts(issue_categories, cats)
        /\ UNCHANGED <<pc, file_status, ngram_size, results, exc, export>>

\* the file is exhausted: line 81
EndOfFile ==
    /\ pc = "reading"
    /\ results' = "tuple"
    /\ pc' = "returned"
    /\ UNCHANGED <<file_status, ngram_size, lines, locals, tables, exc, export>>

(***************************************************************************)
(* save_to_json                                                            *)
(***************************************************************************)
\* '_'.join(ngram)
RECURSIVE ngram_to_string(_)
ngram_to_string(ngram) ==
    IF ngram = <<>> THEN <<>>
    ELSE IF Len(ngram) = 1 THEN ngram[1]
    ELSE ngram[1] \o <<"_">> \o ngram_to_string(Tail(ngram))

\* {ngram_to_string(k): v for k, v in pairs}
StringKeys(pairs) ==
    dict([i \in DOMAIN pairs |->
            [key |-> ngram_to_string(pairs[i].key), count |-> pairs[i].count]])

\* data[4][:save_n]
LimitSeries(series, n) == Prefix(series, n)

\* lines 89-97
LimitedData(n) ==
    <<[name |-> "word_freq", value |-> dict(most_common(word_freq, n))],
      [name |-> "ngram_freq", value |-> StringKeys(most_common(ngram_freq, n))],
      [name |-> "entity_freq", value |-> dict(most_common(entity_freq, n))],
      [name |-> "question_freq", value |-> dict(most_common(question_freq, n))],
      [name |-> "sentiment_time_series",
       value |-> LimitSeries(sentiment_time_series, n)],
      [name |-> "resolutions", value |-> dict(most_common(resolutions, n))],
      [name |-> "issue_categories", value |-> dict(issue_categories)]>>

\* analyze() line 145 calls save_to_json, which builds limited_data
SaveBegin(n) ==
    /\ pc = "returned"
    /\ save_n' = n
    /\ limited_data' = LimitedData(n)
    /\ out_before' = out_file
    /\ pc' = "limited"
    /\ UNCHANGED <<file_status, ngram_size, lines, locals, tables, results, exc,
                   out_dir, out_file>>

\* os.makedirs(path, exist_ok=True): "raises" for the empty path, else the
\* directory is there afterwards
makedirs(dir) == IF dir = "bare" THEN "raises" ELSE "exists"

\* line 99
MakeDirs ==
    /\ pc = "limited"
    /\ IF makedirs(out_dir) = "raises"
       THEN /\ exc' = "FileNotFoundError"
            /\ pc' = "raised"
            /\ UNCHANGED out_dir
       ELSE /\ out_dir' = "exists"
            /\ pc' = "dir_ready"
            /\ UNCHANGED exc
    /\ UNCHANGED <<file_status, ngram_size, lines, locals, tables, results,
                   save_n, limited_data, out_before, out_file>>

\* line 99, the directory cannot be made
MakeDirsFail ==
    /\ pc = "limited"
    /\ out_dir = "missing"
    /\ exc' = "OSError"
    /\ pc' = "raised"
    /\ UNCHANGED <<file_status, ngram_size, lines, locals, tables, results, export>>

\* open(output_file, 'w'): the file is there and empty
open_w(f) == [kind |-> "new", members |-> <<>>, complete |-> FALSE]

\* line 100
OpenOutput ==
    /\ pc = "dir_ready"
    /\ out_file' = open_w(out_file)
    /\ pc' = "dumping"
    /\ UNCHANGED <<file_status, ngram_size, lines, locals, tables, results, exc,
                   save_n, limited_data, out_dir, out_before>>

\* line 100, the file cannot be opened for writing
OpenOutputFail ==
    /\ pc = "dir_ready"
    /\ exc' = "OSError"
    /\ pc' = "raised"
    /\ UNCHANGED <<file_status, ngram_size, lines, locals, tables, results, export>>

\* json.dump writes the document piece by piece into the open file; a piece
\* here is one top-level member, the last of them with the closing brace
write_member(f, doc) ==
    LET k == Len(f.members) + 1
    IN  [f EXCEPT !.members = Append(@, doc[k]), !.complete = (k = Len(doc))]

\* line 101, and line 102 after the last piece
DumpMember ==
    /\ pc = "dumping"
    /\ out_file' = write_member(out_file, limited_data)
    /\ pc' = IF out_file'.complete THEN "saved" ELSE "dumping"
    /\ UNCHANGED <<file_status, ngram_size, lines, locals, tables, results, exc,
                   save_n, limited_data, out_dir, out_before>>

\* line 101, a write fails: the with statement closes the file as it is
DumpFail ==
    /\ pc = "dumping"
    /\ exc' = "OSError"
    /\ pc' = "raised"
    /\ UNCHANGED <<file_status, ngram_size, lines, locals, tables, results, export>>

Next ==
    \/ OpenInput
    \/ OpenMissing
    \/ OpenUnreadable
    \/ \E line \in Corpus : ProcessLine(line)
    \/ EndOfFile
    \/ \E n \in SaveNs : SaveBegin(n)
    \/ MakeDirs
    \/ MakeDirsFail
    \/ OpenOutput
    \/ OpenOutputFail
    \/ DumpMember
    \/ DumpFail

Spec == Init /\ [][Next]_vars

(***************************************************************************)
(* parse_line alone, on lines put together from a left part, a separator   *)
(* and a rest                                                              *)
(***************************************************************************)
LeftParts ==
    {<<"2", "0", "2", "4", "-", "0", "1", "-", "0", "1", " ", "0", "0", ":", "0", "0", ":", "0", "0">>,
     <<"2", "0", "2", "4", "-", "0", "2", "-", "2", "9", " ", "2", "3", ":", "5", "9", ":", "5", "9">>,
     <<"2", "0", "2", "3", "-", "0", "2", "-", "2", "9", " ", "1", "0", ":", "0", "0", ":", "0", "0">>,
     <<"2", "0", "2", "4", "-", "1", "-", "5", " ", "9", ":", "0", "3", ":", "0", "7">>,
     <<"2", "0", "2", "4", "-", "0", "1", "-", "0", "1", " ", " ", "1", "0", ":", "0", "0", ":", "0", "0">>,
     <<"2", "0", "2", "4", "-", "0", "1", "-", " ", "5", " ", "1", "0", ":", "0", "0", ":", "0", "0">>,
     <<"2", "0", "2", "4", "-", "0", "1", "-", "0", "1", "T", "1", "0", ":", "0", "0", ":", "0", "0">>,
     <<"2", "0", "2", "4", "-", "1", "3", "-", "0", "1", " ", "1", "0", ":", "0", "0", ":", "0", "0">>,
     <<"2", "0", "2", "4", "-", "0", "1", "-", "0", "1", " ", "2", "4", ":", "0", "0", ":", "0", "0">>,
     <<"2", "0", "2", "4", "-", "0", "1", "-", "0", "1", " ", "1", "0", ":", "0", "0", ":", "6", "0">>,
     <<"2", "0", "2", "4", "-", "0", "1", "-", "0", "1", " ", "1", "0", ":", "0", "0">>,
     <<"0", "0", "0", "0", "-", "0", "1", "-", "0", "1", " ", "1", "0", ":", "0", "0", ":", "0", "0">>,
     <<"h", "e", "l", "l", "o">>,
     <<>>}

Separators == {<<"|">>, <<" ", "|", " ">>, <<>>}

Rests == {<<"h", "i">>, <<"a", " ", "|", " ", "b", "?">>, <<>>, <<"\n">>}

ParseInputs == {l \o m \o r : l \in LeftParts, m \in Separators, r \in Rests}

\* nothing read, nothing counted, nothing written
Idle ==
    /\ file_status = "readable"
    /\ timestamp = None
    /\ text = <<>>
    /\ grams = <<>>
    /\ categories = <<>>
    /\ word_freq = <<>>
    /\ ngram_freq = <<>>
    /\ entity_freq = <<>>
    /\ question_freq = <<>>
    /\ resolutions = <<>>
    /\ issue_categories = <<>>
    /\ sentiment_time_series = <<>>
    /\ results = "unset"
    /\ exc = "none"
    /\ save_n = 0
    /\ limited_data = <<>>
    /\ out_dir = "exists"
    /\ out_file = Absent
    /\ out_before = Absent

InitParse ==
    /\ pc = "parse"
    /\ \E l \in ParseInputs : lines = <<l>>
    /\ words = <<>>
    /\ ngram_size = 1
    /\ Idle

\* line 64
ParseOne ==
    /\ pc = "parse"
    /\ timestamp' = parse_line(lines[1])[1]
    /\ text' = parse_line(lines[1])[2]
    /\ pc' = "parsed"
    /\ UNCHANGED <<file_status, ngram_size, lines, words, grams, categories,
                   tables, results, exc, export>>

SpecParse == InitParse /\ [][ParseOne]_vars

(***************************************************************************)
(* generate_ngrams alone, on every short sequence of tokens                *)
(***************************************************************************)
\* the most tokens of a sequence
MaxWords == 4

\* the largest window
MaxWindow == 3

Tokens == {<<"x">>, <<"y">>}

TokenSeqs == UNION {[1..n -> Tokens] : n \in 0..MaxWords}

InitNgrams ==
    /\ pc = "ngrams"
    /\ words \in TokenSeqs
    /\ lines = <<>>
    /\ Idle
    /\ ngram_size \in 1..MaxWindow

\* line 67, the list of the windows that zip yields
GenerateNgrams ==
    /\ pc = "ngrams"
    /\ grams' = generate_ngrams(words, ngram_size)
    /\ pc' = "ngrams_done"
    /\ UNCHANGED <<file_status, ngram_size, lines, timestamp, text, words,
                   categories, tables, results, exc, export>>

SpecNgrams == InitNgrams /\ [][GenerateNgrams]_vars

(***************************************************************************)
(* What the claims speak of                                                *)
(***************************************************************************)
Min(a, b) == IF a < b THEN a ELSE b

Max(a, b) == IF a > b THEN a ELSE b

Id(x) == x

\* the member of a document with the given name
Value(doc, name) == doc[CHOOSE i \in DOMAIN doc : doc[i].name = name].value

\* how many entries of table t go before entry i in an export: those with a
\* higher count, and those with the same count that were inserted earlier
Rank(t, i) ==
    Cardinality({j \in DOMAIN t :
        t[j].count > t[i].count \/ (t[j].count = t[i].count /\ j < i)})

\* e is the export of table t limited to k entries, keys written by ser
TopK(t, e, k, ser(_)) ==
    /\ Len(e) = Min(k, Len(t))
    /\ \A i, j \in DOMAIN e : i # j => e[i].key # e[j].key
    /\ \A i \in DOMAIN t :
          Rank(t, i) < k =>
             /\ Rank(t, i) + 1 \in DOMAIN e
             /\ e[Rank(t, i) + 1] = [key |-> ser(t[i].key), count |-> t[i].count]

\* the tokens of an n-gram, an underscore between them
RECURSIVE Joined(_)
Joined(g) == IF Len(g) = 1 THEN g[1] ELSE g[1] \o <<"_">> \o Joined(Tail(g))

CategoryNames == {"billing", "technical", "support"}

\* kw occurs in txt at position p
OccursAt(txt, kw, p) ==
    /\ p + Len(kw) - 1 <= Len(txt)
    /\ \A q \in DOMAIN kw : txt[p + q - 1] = kw[q]

\* txt holds a keyword of the category
HasKeyword(txt, cat) ==
    \E i \in DOMAIN issue_keywords :
        /\ issue_keywords[i].category = cat
        /\ \E k \in DOMAIN issue_keywords[i].keywords :
              \E p \in DOMAIN txt : OccursAt(txt, issue_keywords[i].keywords[k], p)

\* parse_line and tokenize_and_clean on each line a file can hold
ParsedCorpus == [l \in Corpus |-> parse_line(l)]

WordsCorpus == [l \in Corpus |-> tokenize_and_clean(ParsedCorpus[l][2], stop_words)]

\* the entities, the score and the ISO timestamp of each line
EntsCorpus == [l \in Corpus |-> ents(ParsedCorpus[l][2])]

ScoreCorpus == [l \in Corpus |-> polarity_compound(ParsedCorpus[l][2])]

IsoCorpus ==
    [l \in Corpus |->
        IF ParsedCorpus[l][1].kind = "datetime" THEN isoformat(ParsedCorpus[l][1])
        ELSE <<>>]

\* the categories a keyword of which each line's text holds
KeywordCorpus ==
    [l \in Corpus |-> {cat \in CategoryNames : HasKeyword(ParsedCorpus[l][2], cat)}]

\* whether each line's text holds a resolution phrase
ResolutionCorpus ==
    [l \in Corpus |->
        \E r \in DOMAIN resolution_phrases :
            \E p \in DOMAIN ParsedCorpus[l][2] :
                OccursAt(ParsedCorpus[l][2], resolution_phrases[r], p)]

\* the parts of the i-th line read
StampOf(i) == ParsedCorpus[lines[i]][1]

TextOf(i) == ParsedCorpus[lines[i]][2]

WordsOf(i) == WordsCorpus[lines[i]]

Stamped == {i \in DOMAIN lines : StampOf(i).kind = "datetime"}

RECURSIVE SeqSum(_)
SeqSum(s) == IF s = <<>> THEN 0 ELSE Head(s) + SeqSum(Tail(s))

\* the sum of F over the lines read
Total(F(_)) == SeqSum([i \in DOMAIN lines |-> F(i)])

\* how often x is an item of s
Occ(s, x) == Cardinality({p \in DOMAIN s : s[p] = x})

\* how many windows of n tokens of ws are g
WindowsEqual(ws, n, g) ==
    Cardinality({p \in 1..(Len(ws) - n + 1) : SubSeq(ws, p, p + n - 1) = g})

\* table t holds exactly the keys that Expected counts at one or more, each
\* once and with that count
Exact(t, candidates, Expected(_)) ==
    /\ \A i, j \in DOMAIN t : i # j => t[i].key # t[j].key
    /\ \A i \in DOMAIN t : t[i].count >= 1
    /\ \A k \in Keys(t) \cup candidates : Count(t, k) = Expected(k)

\* every entry of t is at its place in u, with a count that is not lower
Grown(t, u) ==
    \A i \in DOMAIN t :
        i \in DOMAIN u /\ u[i].key = t[i].key /\ u[i].count >= t[i].count

(***************************************************************************)
(* C1: for save_n >= 0, each of the five frequency tables is exported with  *)
(* min(save_n, number of keys) entries: the entries of highest count, in   *)
(* descending count, the earlier inserted first among equal counts; the    *)
(* n-gram keys are joined with "_" and no two of them become the same key. *)
(***************************************************************************)
C1_TopKExport ==
    (limited_data # <<>> /\ save_n >= 0) =>
        /\ TopK(word_freq, Value(limited_data, "word_freq"), save_n, Id)
        /\ TopK(ngram_freq, Value(limited_data, "ngram_freq"), save_n, Joined)
        /\ TopK(entity_freq, Value(limited_data, "entity_freq"), save_n, Id)
        /\ TopK(question_freq, Value(limited_data, "question_freq"), save_n, Id)
        /\ TopK(resolutions, Value(limited_data, "resolutions"), save_n, Id)

\* more words and more n-grams than save_n, and two words of the same count
\* of which only the earlier is exported
C1_Witness ==
    /\ pc = "limited"
    /\ save_n = 2
    /\ Len(word_freq) > 2
    /\ Len(ngram_freq) > 2
    /\ Len(Value(limited_data, "ngram_freq")) = 2
    /\ \E i, j \in DOMAIN word_freq :
          /\ i < j
          /\ word_freq[i].count = word_freq[j].count
          /\ Rank(word_freq, i) < 2
          /\ Rank(word_freq, j) >= 2

(***************************************************************************)
(* C2: generate_ngrams on L tokens and a window of N >= 1 gives            *)
(* max(0, L-N+1) windows, the i-th being the N tokens from position i.     *)
(***************************************************************************)
C2_Windows ==
    pc = "ngrams_done" =>
        /\ Len(grams) = Max(0, Len(words) - ngram_size + 1)
        /\ \A i \in DOMAIN grams :
              /\ Len(grams[i]) = ngram_size
              /\ \A j \in 1..ngram_size : grams[i][j] = words[i + j - 1]

C2_Witness ==
    /\ pc = "ngrams_done"
    /\ Len(words) = 4
    /\ ngram_size = 2
    /\ Len(grams) = 3
    /\ grams[1] # grams[2]

(***************************************************************************)
(* C3: a line raises the tally of a category by 1 when its text holds a     *)
(* keyword of the category, however many and however often, and by 0 when  *)
(* it holds none; each category on its own.                                *)
(***************************************************************************)
C3_OnePerCategory ==
    [][lines' # lines =>
          \A cat \in CategoryNames :
              Count(issue_categories', cat) =
                  Count(issue_categories, cat) + (IF HasKeyword(text', cat) THEN 1 ELSE 0)
      ]_vars

\* a line with keywords of all three categories, two of them of "technical"
C3_Witness ==
    /\ pc = "reading"
    /\ Len(lines) = 2
    /\ Keys(categories) = CategoryNames
    /\ Contains(text, <<"b", "u", "g">>)
    /\ Contains(text, <<"i", "s", "s", "u", "e">>)
    /\ Count(issue_categories, "technical") = 2
    /\ Count(issue_categories, "billing") = 1

(***************************************************************************)
(* C4: the sentiment series has one entry for each line with a timestamp,  *)
(* midnight included, in the order of the file, the line's timestamp in    *)
(* ISO form with the line's score; a line without a timestamp adds none    *)
(* and is counted in the other tables all the same.                        *)
(***************************************************************************)
C4_SeriesOfStampedLines ==
    /\ Len(sentiment_time_series) = Cardinality(Stamped)
    /\ \A i \in Stamped :
          LET k == Cardinality({j \in Stamped : j <= i})
          IN  /\ k \in DOMAIN sentiment_time_series
              /\ sentiment_time_series[k] =
                    <<IsoCorpus[lines[i]], ScoreCorpus[lines[i]]>>
    /\ \A i \in DOMAIN lines \ Stamped :
          /\ \A w \in Range(WordsOf(i)) : Count(word_freq, w) >= 1
          /\ \A cat \in KeywordCorpus[lines[i]] : Count(issue_categories, cat) >= 1

\* two lines, one stamped at midnight and one without a timestamp
C4_Witness ==
    /\ pc = "reading"
    /\ Len(lines) = 2
    /\ Len(sentiment_time_series) = 1
    /\ \E i \in Stamped :
          StampOf(i).hour = 0 /\ StampOf(i).minute = 0 /\ StampOf(i).second = 0
    /\ \E i \in DOMAIN lines \ Stamped : WordsOf(i) # <<>>

(***************************************************************************)
(* C5: after every line, each count of the five frequency tables and of    *)
(* the category tally is the number of contributing occurrences in the     *)
(* lines read, at least 1 for a key that is there, and no line lowers a    *)
(* count or removes a key.                                                 *)
(***************************************************************************)
C5_Exact ==
    /\ Exact(word_freq, UNION {Range(WordsOf(i)) : i \in DOMAIN lines},
             LAMBDA w : Total(LAMBDA i : Occ(WordsOf(i), w)))
    /\ Exact(ngram_freq,
             UNION {{SubSeq(WordsOf(i), p, p + ngram_size - 1) :
                        p \in 1..(Len(WordsOf(i)) - ngram_size + 1)} : i \in DOMAIN lines},
             LAMBDA g : Total(LAMBDA i : WindowsEqual(WordsOf(i), ngram_size, g)))
    /\ Exact(entity_freq, UNION {Range(EntsCorpus[lines[i]]) : i \in DOMAIN lines},
             LAMBDA e : Total(LAMBDA i : Occ(EntsCorpus[lines[i]], e)))
    /\ Exact(question_freq, {TextOf(i) : i \in DOMAIN lines},
             LAMBDA t : Total(LAMBDA i :
                IF TextOf(i) = t /\ "?" \in Range(t) THEN 1 ELSE 0))
    /\ Exact(resolutions, {TextOf(i) : i \in DOMAIN lines},
             LAMBDA t : Total(LAMBDA i :
                IF TextOf(i) = t /\ ResolutionCorpus[lines[i]] THEN 1 ELSE 0))
    /\ Exact(issue_categories, CategoryNames,
             LAMBDA c : Total(LAMBDA i : IF c \in KeywordCorpus[lines[i]] THEN 1 ELSE 0))

C5_CountsAreOccurrences ==
    [][IF lines' # lines
       THEN /\ C5_Exact'
            /\ Grown(word_freq, word_freq')
            /\ Grown(ngram_freq, ngram_freq')
            /\ Grown(entity_freq, entity_freq')
            /\ Grown(question_freq, question_freq')
            /\ Grown(resolutions, resolutions')
            /\ Grown(issue_categories, issue_categories')
       ELSE UNCHANGED <<word_freq, ngram_freq, entity_freq, question_freq,
                        resolutions, issue_categories>>
      ]_vars

\* a word counted three times or more over two lines, twice within one of
\* them, and an n-gram and a category counted twice
C5_Witness ==
    /\ pc = "reading"
    /\ Len(lines) = 2
    /\ \E i \in DOMAIN word_freq :
          /\ word_freq[i].count >= 3
          /\ \E j \in DOMAIN lines : Occ(WordsOf(j), word_freq[i].key) = 2
    /\ \E i \in DOMAIN ngram_freq : ngram_freq[i].count = 2
    /\ \E i \in DOMAIN issue_categories : issue_categories[i].count = 2

(***************************************************************************)
(* C6: when the input file cannot be opened, be it missing or unreadable,  *)
(* analyze_text returns None, no exception reaches the caller and no       *)
(* output file is written.                                                 *)
(***************************************************************************)
C6_NoResultWhenNotOpened ==
    (file_status # "readable" /\ pc # "start") =>
        /\ pc = "no_result"
        /\ results = "None"
        /\ exc = "none"
        /\ out_file.kind # "new"

\* s has the form YYYY-MM-DD HH:MM:SS and names a date and a time of day
ExactStamp(s) ==
    /\ Len(s) = 19
    /\ \A p \in {1, 2, 3, 4, 6, 7, 9, 10, 12, 13, 15, 16, 18, 19} : IsDigit(s[p])
    /\ s[5] = "-" /\ s[8] = "-" /\ s[11] = " " /\ s[14] = ":" /\ s[17] = ":"
    /\ IntOf(SubSeq(s, 1, 4)) >= 1
    /\ IntOf(SubSeq(s, 6, 7)) \in 1..12
    /\ IntOf(SubSeq(s, 9, 10)) \in
          1..DaysInMonth(IntOf(SubSeq(s, 1, 4)), IntOf(SubSeq(s, 6, 7)))
    /\ IntOf(SubSeq(s, 12, 13)) \in 0..23
    /\ IntOf(SubSeq(s, 15, 16)) \in 0..59
    /\ IntOf(SubSeq(s, 18, 19)) \in 0..59

StampValue(s) ==
    [kind |-> "datetime", year |-> IntOf(SubSeq(s, 1, 4)),
     month |-> IntOf(SubSeq(s, 6, 7)), day |-> IntOf(SubSeq(s, 9, 10)),
     hour |-> IntOf(SubSeq(s, 12, 13)), minute |-> IntOf(SubSeq(s, 15, 16)),
     second |-> IntOf(SubSeq(s, 18, 19))]

(***************************************************************************)
(* C7: parse_line gives the timestamp and the trimmed rest after the first *)
(* "|" when the trimmed part before it is a valid timestamp of the form     *)
(* YYYY-MM-DD HH:MM:SS, and in every other case no timestamp and the whole *)
(* trimmed line.                                                           *)
(***************************************************************************)
C7_ExactStampOrWholeLine ==
    pc = "parsed" =>
        LET line == lines[1]
            bar  == IndexOf(line, "|")
            left == strip(Slice(line, 1, bar - 1))
        IN  IF bar > 0 /\ ExactStamp(left)
            THEN /\ timestamp = StampValue(left)
                 /\ text = strip(Slice(line, bar + 1, Len(line)))
            ELSE /\ timestamp = None
                 /\ text = strip(line)

(***************************************************************************)
(* C8: whatever the output path (directory there, directory missing, bare  *)
(* file name), the export has the directory in place and then writes the   *)
(* file, a document of exactly the seven members, the category tally whole.*)
(* A failure of the disk itself is not what the claim is about.            *)
(***************************************************************************)
MemberNames ==
    <<"word_freq", "ngram_freq", "entity_freq", "question_freq",
      "sentiment_time_series", "resolutions", "issue_categories">>

C8_ExportWritesEveryPath ==
    (limited_data # <<>> /\ pc # "limited" /\ exc # "OSError") =>
        /\ pc \in {"dir_ready", "dumping", "saved"}
        /\ pc = "saved" =>
              /\ out_file.complete
              /\ [i \in DOMAIN out_file.members |-> out_file.members[i].name] = MemberNames
              /\ Value(out_file.members, "issue_categories") = issue_categories

(***************************************************************************)
(* C9: when save_to_json fails, the output path holds what it held before  *)
(* the export or nothing, never a part of a document.                      *)
(***************************************************************************)
C9_NoPartialFile ==
    (pc = "raised" /\ limited_data # <<>>) =>
        \/ out_file = out_before
        \/ out_file.kind = "absent"
        \/ out_file.members = <<>>

(***************************************************************************)
(* C10: for every save_n, negative ones too, the exported series is the    *)
(* first min(max(save_n, 0), length) entries of the series, and each of    *)
(* the five exported tables has at most max(save_n, 0) entries.            *)
(***************************************************************************)
C10_SameLimitForAll ==
    limited_data # <<>> =>
        LET k == Max(save_n, 0)
        IN  /\ Value(limited_data, "sentiment_time_series") =
                  Slice(sentiment_time_series, 1, Min(k, Len(sentiment_time_series)))
            /\ \A name \in {"word_freq", "ngram_freq", "entity_freq",
                            "question_freq", "resolutions"} :
                  Len(Value(limited_data, name)) <= k

====
